---- MODULE Spec2Model ----
(***************************************************************************)
(* Model of the solitaire rules engine of src/solitaire_game.py: the Card  *)
(* and Game data model, the deal, draw_card, move_card with its ordered    *)
(* legality checks (check_move_valid), check_game_over and cheat.          *)
(*                                                                         *)
(* A row is a sequence of cards whose element 1 is the deque's index 0     *)
(* (the head).  rows is a function from the row index 0..11 to its row.    *)
(***************************************************************************)
EXTENDS Integers, Sequences, FiniteSets, TLC

\* ---------------------------------------------------------------- bounds
\* Number of successful moves explored from a fresh game.
MaxMoves == 3
\* Number of effective draws (stock rotations) explored from a fresh game.
MaxDraws == 1
\* Largest card index offered to move_card.
MaxCardIdx == 1
\* Shuffles 0..MaxShuffle of the shuffle family are dealt.
MaxShuffle == 0
\* Number of cheat() calls explored.
MaxCheats == 1
MaxDealCut == 25
MaxStockMoves == 1
MaxStockDraws == 27
MaxEvents == 4
MaxNegIdx == 2
MaxCheatMoves == 1
MaxCheatDraws == 2

\* ------------------------------------------------------ program constants
NumRows == 12
DeckSize == 52
RanksPerSuit == 13
DeckRow == 4
DEBUG == FALSE

SuitRows == {0, 1, 2, 3}
RowIds == 0..(NumRows - 1)

\* ------------------------------------------------------------ Card, deck
Card(suit, rank, visible) == [suit |-> suit, rank |-> rank, visible |-> visible]

\* convert_func of get_shuffled_deck: int(n/13), n%13+1, default visibility.
convert_func(n) == Card(n \div RanksPerSuit, (n % RanksPerSuit) + 1, DEBUG)

\* One outcome of random.shuffle(list(range(0, 52))).
BaseShuffle ==
  << 21, 17, 31, 30, 26, 15, 44,  8, 45, 23,  3, 47, 38,
      1, 16, 12, 13, 46,  9, 39,  2, 24,  0, 32, 25, 40,
     18, 33, 11, 10, 34, 48, 41,  4, 19, 49, 27, 42,  5,
     20, 35, 50, 28, 43,  6, 36, 51, 14, 29,  7, 22, 37 >>

\* Further outcomes of random.shuffle: the base outcome with every number
\* shifted by k suits.
Shuffle(k) == [i \in 1..DeckSize |-> (BaseShuffle[i] + RanksPerSuit * k) % DeckSize]

Shuffles == {Shuffle(k) : k \in 0..MaxShuffle}

\* More outcomes of random.shuffle, for the deal: the base outcome cut at
\* position cut and shifted by k suits.
DealShuffle(cut, k) ==
  [i \in 1..DeckSize |->
     (BaseShuffle[((i - 1 + cut) % DeckSize) + 1] + RanksPerSuit * k) % DeckSize]

DealShuffles == {DealShuffle(cut, k) : cut \in 0..MaxDealCut, k \in SuitRows}

get_shuffled_deck(rand_nums) == [i \in 1..Len(rand_nums) |-> convert_func(rand_nums[i])]

\* Python slice seq[a:b] of a list (0-based, b exclusive).
Slice(seq, a, b) == SubSeq(seq, a + 1, b)

\* `row[0].visible = v` on the row of index r.
SetHeadVisible(rs, r, v) == [rs EXCEPT ![r][1].visible = v]

RECURSIVE FlipUp(_, _)
\* The loop `for i in range(4, 12): self.rows[i][0].visible = True`, from row i on.
FlipUp(rs, i) ==
  IF i >= NumRows THEN rs ELSE FlipUp(SetHeadVisible(rs, i, TRUE), i + 1)

\* NewGame with `for i in range(5, 12)` for `for i in range(4, 12)`.
NewGame_TableauOnly(rand_nums) ==
  LET shuffled_deck == get_shuffled_deck(rand_nums)
      dealt == [r \in RowIds |->
                 CASE r = 5  -> Slice(shuffled_deck, 0, 1)
                   [] r = 6  -> Slice(shuffled_deck, 1, 3)
                   [] r = 7  -> Slice(shuffled_deck, 3, 6)
                   [] r = 8  -> Slice(shuffled_deck, 6, 10)
                   [] r = 9  -> Slice(shuffled_deck, 10, 15)
                   [] r = 10 -> Slice(shuffled_deck, 15, 21)
                   [] r = 11 -> Slice(shuffled_deck, 21, 28)
                   [] r = 4  -> Slice(shuffled_deck, 28, Len(shuffled_deck))
                   [] OTHER  -> << >>]
  IN FlipUp(dealt, DeckRow + 1)

\* Game.__init__ with the given outcome of the shuffle.
NewGame(rand_nums) ==
  LET shuffled_deck == get_shuffled_deck(rand_nums)
      dealt == [r \in RowIds |->
                 CASE r = 5  -> Slice(shuffled_deck, 0, 1)
                   [] r = 6  -> Slice(shuffled_deck, 1, 3)
                   [] r = 7  -> Slice(shuffled_deck, 3, 6)
                   [] r = 8  -> Slice(shuffled_deck, 6, 10)
                   [] r = 9  -> Slice(shuffled_deck, 10, 15)
                   [] r = 10 -> Slice(shuffled_deck, 15, 21)
                   [] r = 11 -> Slice(shuffled_deck, 21, 28)
                   [] r = 4  -> Slice(shuffled_deck, 28, Len(shuffled_deck))
                   [] OTHER  -> << >>]
  IN FlipUp(dealt, DeckRow)

\* --------------------------------------------------------- deque helpers
\* deque.rotate(-n): rotate left by n steps, which for n < 0 is a rotation to
\* the right by -n steps (no-op on an empty deque).
RotateLeft(row, n) ==
  IF Len(row) = 0 THEN row
  ELSE LET m == n % Len(row)
       IN SubSeq(row, m + 1, Len(row)) \o SubSeq(row, 1, m)

\* The position (1-based) that `row[i]` reads: i counts from the head for
\* i >= 0 and from the tail for i < 0.  A position outside 1..Len(row) is a
\* Python IndexError.
DequeIndex(row, i) == IF i >= 0 THEN i + 1 ELSE Len(row) + i + 1

\* ----------------------------------------------------------- draw_card
\* draw_card with `self.deck.rotate(1)` for `self.deck.rotate(-1)`.
draw_card_RotateRight(rs) ==
  LET deck == rs[DeckRow] IN
  IF Len(deck) >= 2
  THEN LET rotated == RotateLeft(deck, 0 - 1)
           shown == [rotated EXCEPT ![1].visible = TRUE]
           hidden == [shown EXCEPT ![Len(shown)].visible = DEBUG]
       IN [rs EXCEPT ![DeckRow] = hidden]
  ELSE rs

\* draw_card without `self.deck[-1].visible = False`.
draw_card_NoHide(rs) ==
  LET deck == rs[DeckRow] IN
  IF Len(deck) >= 2
  THEN LET rotated == RotateLeft(deck, 1)
           shown == [rotated EXCEPT ![1].visible = TRUE]
       IN [rs EXCEPT ![DeckRow] = shown]
  ELSE rs

draw_card(rs) ==
  LET deck == rs[DeckRow] IN
  IF Len(deck) >= 2
  THEN LET rotated == RotateLeft(deck, 1)
           shown == [rotated EXCEPT ![1].visible = TRUE]
           hidden == [shown EXCEPT ![Len(shown)].visible = DEBUG]
       IN [rs EXCEPT ![DeckRow] = hidden]
  ELSE rs

\* ------------------------------------------------------ check_move_valid
\* The result of a check is "Ok" where the code returns True, otherwise the
\* name of the raise statement reached.

\* check_consecutive comparing the ranks the other way round.
check_consecutive_Ascending(card, dst_row) ==
  IF Len(dst_row) = 0 THEN "Ok"
  ELSE IF card.rank + 1 # dst_row[1].rank THEN "NonConsecutiveTableauMove"
  ELSE "Ok"

\* check_consecutive that also wants the suits to differ.
check_consecutive_Suits(card, dst_row) ==
  IF Len(dst_row) = 0 THEN "Ok"
  ELSE IF card.rank # dst_row[1].rank + 1 \/ card.suit = dst_row[1].suit
       THEN "NonConsecutiveTableauMove"
  ELSE "Ok"

\* Lines 160-169: the checks on a destination that is no suit row.
check_consecutive(card, dst_row) ==
  IF Len(dst_row) = 0 THEN "Ok"
  ELSE IF card.rank # dst_row[1].rank + 1 THEN "NonConsecutiveTableauMove"
  ELSE "Ok"

\* check_suit_row letting any rank start an empty suit row.
check_suit_row_AnyFirst(card, card_idx, to_row, dst_row) ==
  IF card_idx > 0 THEN "ChainIntoFoundation"
  ELSE IF card.suit # to_row THEN "SuitMismatch"
  ELSE IF Len(dst_row) = 0 THEN "Ok"
  ELSE IF card.rank + 1 # dst_row[1].rank THEN "NonConsecutiveFoundationMove"
  ELSE "Ok"

\* check_suit_row with `>` for `!=` in the test of consecutive ranks.
check_suit_row_GreaterThan(card, card_idx, to_row, dst_row) ==
  IF card_idx > 0 THEN "ChainIntoFoundation"
  ELSE IF card.suit # to_row THEN "SuitMismatch"
  ELSE IF Len(dst_row) = 0
       THEN IF card.rank < 13 THEN "FoundationRequiresKingFirst"
            ELSE IF card.rank = 13 THEN "Ok"
            ELSE "FallThrough"
  ELSE IF card.rank + 1 > dst_row[1].rank THEN "NonConsecutiveFoundationMove"
  ELSE "Ok"

\* check_suit_row without the test of the card's suit.
check_suit_row_NoSuit(card, card_idx, to_row, dst_row) ==
  IF card_idx > 0 THEN "ChainIntoFoundation"
  ELSE IF Len(dst_row) = 0
       THEN IF card.rank < 13 THEN "FoundationRequiresKingFirst"
            ELSE IF card.rank = 13 THEN "Ok"
            ELSE "FallThrough"
  ELSE IF card.rank + 1 # dst_row[1].rank THEN "NonConsecutiveFoundationMove"
  ELSE "Ok"

\* Lines 146-159: the body of `if to_row in [0, 1, 2, 3]`.  "FallThrough" is
\* the branch that neither raises nor returns.
check_suit_row(card, card_idx, to_row, dst_row) ==
  IF card_idx > 0 THEN "ChainIntoFoundation"
  ELSE IF card.suit # to_row THEN "SuitMismatch"
  ELSE IF Len(dst_row) = 0
       THEN IF card.rank < 13 THEN "FoundationRequiresKingFirst"
            ELSE IF card.rank = 13 THEN "Ok"
            ELSE "FallThrough"
  ELSE IF card.rank + 1 # dst_row[1].rank THEN "NonConsecutiveFoundationMove"
  ELSE "Ok"

\* check_move_valid testing for a move to the same row before it tests that
\* the selected card is face up.
check_move_valid_SameRowFirst(rs, from_row, to_row, card_idx) ==
  IF ~(0 <= from_row /\ from_row <= 11) THEN "FromRowOutOfBounds"
  ELSE IF ~(0 <= to_row /\ to_row <= 11) THEN "ToRowOutOfBounds"
  ELSE
    LET src_row == rs[from_row]
        dst_row == rs[to_row]
        max_idx == Len(src_row) - 1
    IN
    IF card_idx > max_idx THEN "CardIndexOutOfBounds"
    ELSE IF DequeIndex(src_row, card_idx) \notin 1..Len(src_row) THEN "IndexError"
    ELSE
      LET card == src_row[DequeIndex(src_row, card_idx)] IN
      IF from_row = to_row THEN "SameRowMove"
      ELSE IF ~card.visible THEN "CardNotVisible"
      ELSE IF to_row = 4 THEN "CannotMoveIntoStock"
      ELSE IF /\ to_row \in SuitRows
              /\ check_suit_row(card, card_idx, to_row, dst_row) # "FallThrough"
           THEN check_suit_row(card, card_idx, to_row, dst_row)
      ELSE check_consecutive(card, dst_row)

\* check_move_valid testing for a move into the deck before it tests for a
\* move to the same row.
check_move_valid_StockFirst(rs, from_row, to_row, card_idx) ==
  IF ~(0 <= from_row /\ from_row <= 11) THEN "FromRowOutOfBounds"
  ELSE IF ~(0 <= to_row /\ to_row <= 11) THEN "ToRowOutOfBounds"
  ELSE
    LET src_row == rs[from_row]
        dst_row == rs[to_row]
        max_idx == Len(src_row) - 1
    IN
    IF card_idx > max_idx THEN "CardIndexOutOfBounds"
    ELSE IF DequeIndex(src_row, card_idx) \notin 1..Len(src_row) THEN "IndexError"
    ELSE
      LET card == src_row[DequeIndex(src_row, card_idx)] IN
      IF ~card.visible THEN "CardNotVisible"
      ELSE IF to_row = 4 THEN "CannotMoveIntoStock"
      ELSE IF from_row = to_row THEN "SameRowMove"
      ELSE IF /\ to_row \in SuitRows
              /\ check_suit_row(card, card_idx, to_row, dst_row) # "FallThrough"
           THEN check_suit_row(card, card_idx, to_row, dst_row)
      ELSE check_consecutive(card, dst_row)

check_move_valid(rs, from_row, to_row, card_idx) ==
  IF ~(0 <= from_row /\ from_row <= 11) THEN "FromRowOutOfBounds"
  ELSE IF ~(0 <= to_row /\ to_row <= 11) THEN "ToRowOutOfBounds"
  ELSE
    LET src_row == rs[from_row]
        dst_row == rs[to_row]
        max_idx == Len(src_row) - 1
    IN
    IF card_idx > max_idx THEN "CardIndexOutOfBounds"
    ELSE IF DequeIndex(src_row, card_idx) \notin 1..Len(src_row) THEN "IndexError"
    ELSE
      LET card == src_row[DequeIndex(src_row, card_idx)] IN
      IF ~card.visible THEN "CardNotVisible"
      ELSE IF from_row = to_row THEN "SameRowMove"
      ELSE IF to_row = 4 THEN "CannotMoveIntoStock"
      ELSE IF /\ to_row \in SuitRows
              /\ check_suit_row(card, card_idx, to_row, dst_row) # "FallThrough"
           THEN check_suit_row(card, card_idx, to_row, dst_row)
      ELSE check_consecutive(card, dst_row)

\* -------------------------------------------------------------- move_card
RECURSIVE PopLoop_Peek(_, _, _)
\* PopLoop reading src_row[-1] without popping it.
PopLoop_Peek(src_row, dst_row, num_cards) ==
  IF num_cards <= 0 THEN <<src_row, dst_row>>
  ELSE LET card == src_row[Len(src_row)]
       IN PopLoop_Peek(src_row, <<card>> \o dst_row, num_cards - 1)

RECURSIVE PopLoop(_, _, _)
\* `for i in range(0, num_cards): card = src_row.pop(); dst_row.appendleft(card)`
\* The result is <<src_row, dst_row>> after the loop.
PopLoop(src_row, dst_row, num_cards) ==
  IF num_cards <= 0 THEN <<src_row, dst_row>>
  ELSE LET card == src_row[Len(src_row)]
       IN PopLoop(SubSeq(src_row, 1, Len(src_row) - 1), <<card>> \o dst_row, num_cards - 1)

\* MoveCards without `src_row.rotate(-num_cards)`: the cards are popped from
\* the tail of src_row as it stands.
MoveCards_NoRotate(rs, from_row, to_row, card_idx) ==
  LET num_cards == card_idx + 1
      popped == PopLoop(rs[from_row], rs[to_row], num_cards)
      moved == [rs EXCEPT ![from_row] = popped[1], ![to_row] = popped[2]]
  IN IF Len(moved[from_row]) > 0 THEN SetHeadVisible(moved, from_row, TRUE) ELSE moved

\* MoveCards without `if len(src_row) > 0: src_row[0].visible = True`.
MoveCards_NoFlip(rs, from_row, to_row, card_idx) ==
  LET num_cards == card_idx + 1
      popped == PopLoop(RotateLeft(rs[from_row], num_cards), rs[to_row], num_cards)
      moved == [rs EXCEPT ![from_row] = popped[1], ![to_row] = popped[2]]
  IN moved

\* The body of move_card after the validity check has passed.
MoveCards(rs, from_row, to_row, card_idx) ==
  LET num_cards == card_idx + 1
      popped == PopLoop(RotateLeft(rs[from_row], num_cards), rs[to_row], num_cards)
      moved == [rs EXCEPT ![from_row] = popped[1], ![to_row] = popped[2]]
  IN IF Len(moved[from_row]) > 0 THEN SetHeadVisible(moved, from_row, TRUE) ELSE moved

\* move_card rotating src_row before the validity check.
move_card_RotateFirst(rs, from_row, to_row, card_idx) ==
  LET result == check_move_valid(rs, from_row, to_row, card_idx)
      rotated == IF from_row \in RowIds
                 THEN [rs EXCEPT ![from_row] = RotateLeft(@, card_idx + 1)]
                 ELSE rs
  IN IF result # "Ok"
     THEN [rows |-> rotated, result |-> result]
     ELSE [rows |-> MoveCards(rs, from_row, to_row, card_idx), result |-> "Ok"]

\* move_card: the board after the call and its outcome ("Ok", or the
\* InvalidMoveError raised by check_move_valid).
move_card(rs, from_row, to_row, card_idx) ==
  LET result == check_move_valid(rs, from_row, to_row, card_idx)
  IN IF result # "Ok"
     THEN [rows |-> rs, result |-> result]
     ELSE [rows |-> MoveCards(rs, from_row, to_row, card_idx), result |-> "Ok"]

\* -------------------------------------------------------- check_game_over
RECURSIVE SumLen(_, _)
SumLen(rs, S) ==
  IF S = {} THEN 0
  ELSE LET r == CHOOSE x \in S : TRUE IN Len(rs[r]) + SumLen(rs, S \ {r})

check_game_over(rs) == SumLen(rs, SuitRows) >= 52

\* ------------------------------------------------------------------ cheat
RECURSIVE CheatRanks(_, _, _)
\* `for i in range(13, 0, -1): self.rows[suit].appendleft(Card(suit, i, True))`
CheatRanks(row, suit, i) ==
  IF i <= 0 THEN row
  ELSE CheatRanks(<<Card(suit, i, TRUE)>> \o row, suit, i - 1)

\* cheat with range(12, 0, -1) for range(13, 0, -1).
cheat_NoKing(rs) == [r \in RowIds |-> IF r \in SuitRows THEN CheatRanks(rs[r], r, 12) ELSE rs[r]]

cheat(rs) == [r \in RowIds |-> IF r \in SuitRows THEN CheatRanks(rs[r], r, 13) ELSE rs[r]]

\* ------------------------------------------------------------------ state
VARIABLES
  rows,      \* Game.rows
  lastOp,    \* the last operation called on the game and its outcome
  suitRowSource,  \* whether some successful move took its cards from a suit row
  budget,    \* operations still explored: [moves, draws, cheats, events]
  stockRun,  \* the stock row when the last successful move (or the deal) was
             \* done, and the number of rotating draws since
  game       \* TelegramUser.game: "None", or "Game" for the Game of `rows`

vars == <<rows, lastOp, suitRowSource, budget, stockRun, game>>

\* Arguments offered to move_card: every row index and one on each side of the
\* valid range; card indices from 0.
RowArgs == (0 - 1)..NumRows
IdxArgs == 0..MaxCardIdx
NegIdxArgs == (0 - MaxNegIdx)..(0 - 1)

NoArg == 0 - 2

Op(op, result, from_row, to_row, card_idx) ==
  [op |-> op, result |-> result, from_row |-> from_row, to_row |-> to_row,
   card_idx |-> card_idx]

InitGame ==
  /\ \E s \in Shuffles : rows = NewGame(s)
  /\ lastOp = Op("new_game", "Ok", NoArg, NoArg, NoArg)
  /\ suitRowSource = FALSE
  /\ stockRun = [start |-> rows[DeckRow], draws |-> 0]
  /\ game = "Game"

Init ==
  /\ InitGame
  /\ budget = [moves |-> MaxMoves, draws |-> MaxDraws, cheats |-> 0, events |-> 0]

InitCheat ==
  /\ InitGame
  /\ budget = [moves |-> MaxMoves, draws |-> MaxDraws, cheats |-> MaxCheats,
               events |-> 0]

\* A fresh game for any of the deal's shuffles, with one draw to follow.
InitDeal ==
  /\ \E s \in DealShuffles : rows = NewGame(s)
  /\ lastOp = Op("new_game", "Ok", NoArg, NoArg, NoArg)
  /\ suitRowSource = FALSE
  /\ stockRun = [start |-> rows[DeckRow], draws |-> 0]
  /\ game = "Game"
  /\ budget = [moves |-> 0, draws |-> MaxDraws, cheats |-> 0, events |-> 0]

\* A fresh game with cheats and few moves to follow.
InitCheatMoves ==
  /\ InitGame
  /\ budget = [moves |-> MaxCheatMoves, draws |-> MaxCheatDraws, cheats |-> MaxCheats,
               events |-> 0]

\* A fresh game with many draws and few moves to follow.
InitStock ==
  /\ InitGame
  /\ budget = [moves |-> MaxStockMoves, draws |-> MaxStockDraws, cheats |-> 0,
               events |-> 0]

\* The bot before the user's first event: get_telegram_user creates the user
\* with game = None; no Game object exists.
InitBot ==
  /\ rows = [r \in RowIds |-> << >>]
  /\ lastOp = Op("get_telegram_user", "Ok", NoArg, NoArg, NoArg)
  /\ suitRowSource = FALSE
  /\ stockRun = [start |-> << >>, draws |-> 0]
  /\ game = "None"
  /\ budget = [moves |-> 0, draws |-> 0, cheats |-> 0, events |-> MaxEvents]

\* A call of draw_card().  A draw that rotates the stock uses up one draw of
\* the budget.
DrawCard ==
  /\ Len(rows[DeckRow]) >= 2 => budget.draws > 0
  /\ rows' = draw_card(rows)
  /\ lastOp' = Op("draw_card", "Ok", NoArg, NoArg, NoArg)
  /\ UNCHANGED <<suitRowSource, game>>
  /\ budget' = IF Len(rows[DeckRow]) >= 2
               THEN [budget EXCEPT !.draws = @ - 1] ELSE budget
  /\ stockRun' = IF Len(rows[DeckRow]) >= 2
                 THEN [stockRun EXCEPT !.draws = @ + 1] ELSE stockRun

\* The arguments offered to move_card.
MoveArgs == RowArgs \X RowArgs \X IdxArgs

\* A call of move_card(from_row, to_row, card_idx) that returns normally.
MoveCard(from_row, to_row, card_idx) ==
  LET out == move_card(rows, from_row, to_row, card_idx) IN
  /\ budget.moves > 0
  /\ out.result = "Ok"
  /\ rows' = out.rows
  /\ lastOp' = Op("move_card", "Ok", from_row, to_row, card_idx)
  /\ suitRowSource' = (suitRowSource \/ from_row \in SuitRows)
  /\ budget' = [budget EXCEPT !.moves = @ - 1]
  /\ stockRun' = [start |-> out.rows[DeckRow], draws |-> 0]
  /\ UNCHANGED game

\* The boards left behind by the offered calls of move_card that raise
\* InvalidMoveError.
RejectedBoards(rs) ==
  {move_card(rs, a[1], a[2], a[3]).rows :
     a \in {b \in MoveArgs : check_move_valid(rs, b[1], b[2], b[3]) # "Ok"}}

\* A call of move_card that raises InvalidMoveError, with any of the offered
\* arguments.
MoveRejected ==
  \E rs \in RejectedBoards(rows) :
    /\ rows' = rs
    /\ lastOp' = Op("move_card", "InvalidMoveError", NoArg, NoArg, NoArg)
    /\ UNCHANGED <<suitRowSource, budget, stockRun, game>>

\* A call of cheat().
Cheat ==
  /\ budget.cheats > 0
  /\ rows' = cheat(rows)
  /\ lastOp' = Op("cheat", "Ok", NoArg, NoArg, NoArg)
  /\ UNCHANGED <<suitRowSource, stockRun, game>>
  /\ budget' = [budget EXCEPT !.cheats = @ - 1]

Move == \E f \in RowArgs, t \in RowArgs, i \in IdxArgs : MoveCard(f, t, i)

Next == DrawCard \/ Move \/ MoveRejected

NextCheat == DrawCard \/ Move \/ MoveRejected \/ Cheat

Spec == Init /\ [][Next]_vars

NextDeal == DrawCard

SpecDeal == InitDeal /\ [][NextDeal]_vars

\* Draws and successful moves.
NextStock == DrawCard \/ Move

SpecStock == InitStock /\ [][NextStock]_vars

\* ---------------------------------------------- negative card indices
\* A call of move_card with a negative card_idx that returns normally.
MoveNeg ==
  \E f \in RowArgs, t \in RowArgs, i \in NegIdxArgs :
    /\ i < 0
    /\ MoveCard(f, t, i)

\* The exception a call of move_card ends with.
Raised(result) == IF result = "IndexError" THEN "IndexError" ELSE "InvalidMoveError"

\* A call of move_card with a negative card_idx that raises: InvalidMoveError
\* from a check of check_move_valid, or IndexError from `src_row[card_idx]`.
MoveNegRaises ==
  \E out \in {[rows |-> move_card(rows, a[1], a[2], a[3]).rows,
               raised |-> Raised(move_card(rows, a[1], a[2], a[3]).result)] :
                a \in {b \in RowArgs \X RowArgs \X NegIdxArgs :
                         check_move_valid(rows, b[1], b[2], b[3]) # "Ok"}} :
    /\ rows' = out.rows
    /\ lastOp' = Op("move_card", out.raised, NoArg, NoArg, NoArg)
    /\ UNCHANGED <<suitRowSource, budget, stockRun, game>>

NextNeg == DrawCard \/ Move \/ MoveRejected \/ MoveNeg \/ MoveNegRaises

SpecNeg == Init /\ [][NextNeg]_vars

\* ------------------------------------------------------ telegram bot
\* `user.game = Game()`.
StartGame ==
  /\ \E s \in Shuffles :
       /\ rows' = NewGame(s)
       /\ stockRun' = [start |-> NewGame(s)[DeckRow], draws |-> 0]
  /\ game' = "Game"
  /\ lastOp' = Op("new_game", "Ok", NoArg, NoArg, NoArg)
  /\ suitRowSource' = FALSE
  /\ budget' = [budget EXCEPT !.events = @ - 1]

\* The /start command.
CmdStart ==
  /\ budget.events > 0
  /\ StartGame

\* The Play Again button.
ButtonPlayAgain ==
  /\ budget.events > 0
  /\ StartGame

\* The Draw Card button: user.game.draw_card(), or the AttributeError of
\* None.draw_card, which the handler catches.
ButtonDrawCard ==
  /\ budget.events > 0
  /\ IF game = "Game"
     THEN /\ rows' = draw_card(rows)
          /\ lastOp' = Op("draw_card", "Ok", NoArg, NoArg, NoArg)
          /\ stockRun' = IF Len(rows[DeckRow]) >= 2
                         THEN [stockRun EXCEPT !.draws = @ + 1] ELSE stockRun
     ELSE /\ lastOp' = Op("draw_card", "AttributeError", NoArg, NoArg, NoArg)
          /\ UNCHANGED <<rows, stockRun>>
  /\ UNCHANGED <<suitRowSource, game>>
  /\ budget' = [budget EXCEPT !.events = @ - 1]

\* `if user.game.check_game_over() is True: ... user.game = None`
AfterMove(rs) == IF check_game_over(rs) THEN "None" ELSE "Game"

\* The /move command, /move <from_row> <card_index> <to_row>, when move_card
\* returns normally.
CmdMoveOk(from_row, card_idx, to_row) ==
  LET out == move_card(rows, from_row, to_row, card_idx) IN
  /\ budget.events > 0
  /\ game = "Game"
  /\ out.result = "Ok"
  /\ rows' = out.rows
  /\ lastOp' = Op("move_card", "Ok", from_row, to_row, card_idx)
  /\ suitRowSource' = (suitRowSource \/ from_row \in SuitRows)
  /\ stockRun' = [start |-> out.rows[DeckRow], draws |-> 0]
  /\ game' = AfterMove(out.rows)
  /\ budget' = [budget EXCEPT !.events = @ - 1]

CmdMove ==
  \E f \in RowArgs, t \in RowArgs, i \in IdxArgs :
    /\ game = "Game"
    /\ CmdMoveOk(f, i, t)

\* The /move command when move_card raises InvalidMoveError, which the
\* handler catches before it checks for the end of the game.
CmdMoveRejected ==
  /\ budget.events > 0
  /\ game = "Game"
  /\ \E rs \in RejectedBoards(rows) :
       /\ rows' = rs
       /\ game' = AfterMove(rs)
  /\ lastOp' = Op("move_card", "InvalidMoveError", NoArg, NoArg, NoArg)
  /\ UNCHANGED <<suitRowSource, stockRun>>
  /\ budget' = [budget EXCEPT !.events = @ - 1]

\* The /move command without a game: None.move_card raises AttributeError,
\* which the handler does not catch.
CmdMoveNoGame ==
  /\ budget.events > 0
  /\ game = "None"
  /\ lastOp' = Op("move_card", "AttributeError", NoArg, NoArg, NoArg)
  /\ UNCHANGED <<rows, suitRowSource, stockRun, game>>
  /\ budget' = [budget EXCEPT !.events = @ - 1]

\* The /cheat command: user.game.cheat(), or the AttributeError of None.cheat,
\* which the handler catches.
CmdCheat ==
  /\ budget.events > 0
  /\ IF game = "Game"
     THEN /\ rows' = cheat(rows)
          /\ lastOp' = Op("cheat", "Ok", NoArg, NoArg, NoArg)
     ELSE /\ lastOp' = Op("cheat", "AttributeError", NoArg, NoArg, NoArg)
          /\ UNCHANGED rows
  /\ UNCHANGED <<suitRowSource, stockRun, game>>
  /\ budget' = [budget EXCEPT !.events = @ - 1]

NextBot ==
  \/ CmdStart
  \/ ButtonPlayAgain
  \/ ButtonDrawCard
  \/ CmdMove
  \/ CmdMoveRejected
  \/ CmdMoveNoGame
  \/ CmdCheat

SpecBot == InitBot /\ [][NextBot]_vars

SpecCheat == InitCheat /\ [][NextCheat]_vars

SpecCheatMoves == InitCheatMoves /\ [][NextCheat]_vars

\* ================================================================ claims

\* The places of the cards on the board: <<row, position>>.
Places(rs) == UNION {{<<r, i>> : i \in 1..Len(rs[r])} : r \in RowIds}

CardAt(rs, p) == rs[p[1]][p[2]]

\* The number n of 0..51 that convert_func turns into the card c.
CardNumber(c) == RanksPerSuit * c.suit + (c.rank - 1)

\* The number of cards of the given suit and rank on the board.
CountOf(rs, suit, rank) ==
  Cardinality({p \in Places(rs) : CardAt(rs, p).suit = suit /\ CardAt(rs, p).rank = rank})

SuccessfulMove == lastOp.op = "move_card" /\ lastOp.result = "Ok"

RejectedMove == lastOp.op = "move_card" /\ lastOp.result = "InvalidMoveError"

\* C1: card conservation.  In every state reached from new_game() by
\* draw_card() and move_card() calls, successful or rejected, the 12 rows
\* hold 52 cards and their (suit, rank) pairs are the 52 distinct
\* combinations: none is duplicated, none is lost.
C1_CardConservation ==
  /\ Cardinality(Places(rows)) = DeckSize
  /\ {CardNumber(CardAt(rows, p)) : p \in Places(rows)} = 0..(DeckSize - 1)

\* C1 witness: a chain of two cards has just been moved, after a draw.
C1_Witness ==
  /\ SuccessfulMove
  /\ lastOp.card_idx = 1
  /\ budget.draws < MaxDraws

\* C2: in every state reached from new_game() by draw, move and cheat, every
\* (suit, rank) combination is on the board exactly once.
C2_EachCardOnce ==
  \A suit \in SuitRows, rank \in 1..RanksPerSuit : CountOf(rows, suit, rank) = 1

\* C3: a rejected move is side-effect free: a call of move_card that raises
\* InvalidMoveError leaves all 12 rows, card order and visibility, as they were.
C3_RejectedMoveNoEffect ==
  [][(lastOp'.op = "move_card" /\ lastOp'.result = "InvalidMoveError") => rows' = rows]_vars

\* C3 witness: a move has been rejected on a board that earlier moves and a
\* draw have changed.
C3_Witness ==
  /\ RejectedMove
  /\ budget.moves < MaxMoves
  /\ budget.draws < MaxDraws
\* The checks of the validation in their fixed order, each with the
\* violation it stands for.  CheckFails(k, ...) is read only when the checks
\* before k have passed.
CheckName ==
  << "FromRowOutOfBounds", "ToRowOutOfBounds", "CardIndexOutOfBounds",
     "CardNotVisible", "SameRowMove", "CannotMoveIntoStock",
     "ChainIntoFoundation", "SuitMismatch", "FoundationRequiresKingFirst",
     "NonConsecutiveFoundationMove", "NonConsecutiveTableauMove" >>

CheckFails(k, rs, from_row, to_row, card_idx) ==
  CASE k = 1  -> from_row \notin 0..11
    [] k = 2  -> to_row \notin 0..11
    [] k = 3  -> ~(card_idx <= Len(rs[from_row]) - 1)
    [] k = 4  -> ~rs[from_row][card_idx + 1].visible
    [] k = 5  -> from_row = to_row
    [] k = 6  -> to_row = 4
    [] k = 7  -> to_row \in 0..3 /\ card_idx # 0
    [] k = 8  -> to_row \in 0..3 /\ rs[from_row][card_idx + 1].suit # to_row
    [] k = 9  -> /\ to_row \in 0..3
                 /\ rs[to_row] = << >>
                 /\ rs[from_row][card_idx + 1].rank # 13
    [] k = 10 -> /\ to_row \in 0..3
                 /\ rs[to_row] # << >>
                 /\ rs[from_row][card_idx + 1].rank + 1 # Head(rs[to_row]).rank
    [] k = 11 -> /\ to_row \in 5..11
                 /\ rs[to_row] # << >>
                 /\ rs[from_row][card_idx + 1].rank # Head(rs[to_row]).rank + 1

RECURSIVE FirstFailing(_, _, _, _, _)
\* The violation of the first check from k on that fails, "Ok" if none does.
FirstFailing(k, rs, from_row, to_row, card_idx) ==
  IF k > Len(CheckName) THEN "Ok"
  ELSE IF CheckFails(k, rs, from_row, to_row, card_idx) THEN CheckName[k]
  ELSE FirstFailing(k + 1, rs, from_row, to_row, card_idx)

\* The results check_move_valid gives on the board rs over the offered arguments.
ResultsOn(rs) == {check_move_valid(rs, a[1], a[2], a[3]) : a \in MoveArgs}

\* C4: validation order.  On every reachable board and for every
\* (from_row, card_index >= 0, to_row), check_move_valid reports the violation
\* of the first failing check in the fixed order of the checks, and reports
\* success iff no applicable check fails.
C4_ValidationOrder ==
  \A a \in MoveArgs :
    check_move_valid(rows, a[1], a[2], a[3]) = FirstFailing(1, rows, a[1], a[2], a[3])

\* C4 witness: a move has been rejected on a board on which, depending on the
\* arguments, every one of the violations and success are reported.
C4_Witness ==
  /\ RejectedMove
  /\ ResultsOn(rows) = {CheckName[k] : k \in 1..Len(CheckName)} \cup {"Ok"}

\* C5: effect of a successful move(from_row, card_index, to_row).  The new
\* to_row is the first card_index+1 cards of the old from_row, in their order,
\* followed by the old to_row; the new from_row is the old one without those
\* cards; if it is non-empty its head is visible; no other visibility changes
\* and the other 10 rows are unchanged.
C5_MoveEffect ==
  [][(lastOp'.op = "move_card" /\ lastOp'.result = "Ok") =>
       LET f == lastOp'.from_row
           t == lastOp'.to_row
           n == lastOp'.card_idx + 1
           rest == SubSeq(rows[f], n + 1, Len(rows[f]))
       IN /\ rows'[t] = SubSeq(rows[f], 1, n) \o rows[t]
          /\ Len(rows'[f]) = Len(rest)
          /\ \A j \in 1..Len(rest) :
               /\ rows'[f][j].suit = rest[j].suit
               /\ rows'[f][j].rank = rest[j].rank
               /\ rows'[f][j].visible = (rest[j].visible \/ j = 1)
          /\ \A r \in RowIds \ {f, t} : rows'[r] = rows[r]
    ]_vars

\* C5 witness: a chain of two cards has been moved out of a row that still
\* holds cards, onto a row that held cards.
C5_Witness ==
  /\ SuccessfulMove
  /\ lastOp.card_idx = 1
  /\ rows[lastOp.from_row] # << >>
  /\ Len(rows[lastOp.to_row]) > 2
TableauRows == 5..11

\* The card a move out of from_row selects with card_idx (it must exist).
Selected(rs, from_row, card_idx) == rs[from_row][card_idx + 1]

Succeeds(rs, from_row, to_row, card_idx) ==
  move_card(rs, from_row, to_row, card_idx).result = "Ok"

\* C6 as claimed: on every reachable board, a move of an existing card whose
\* destination is an empty foundation row succeeds iff the card's rank is 13.
C6_Original ==
  \A f \in RowIds, t \in SuitRows, i \in IdxArgs :
    (rows[t] = << >> /\ i <= Len(rows[f]) - 1) =>
      (Succeeds(rows, f, t, i) <=> Selected(rows, f, i).rank = 13)

\* C6 amended: on every reachable board, a move of a visible head card
\* (card_index 0) whose suit is the index of the destination, into an empty
\* foundation row, succeeds iff the card's rank is 13, and the card is then
\* the only card of that row.
C6_EmptyFoundation ==
  \A f \in RowIds, t \in SuitRows :
    (/\ rows[t] = << >>
     /\ rows[f] # << >>
     /\ Selected(rows, f, 0).visible
     /\ Selected(rows, f, 0).suit = t) =>
      /\ Succeeds(rows, f, t, 0) <=> Selected(rows, f, 0).rank = 13
      /\ Succeeds(rows, f, t, 0) =>
           move_card(rows, f, t, 0).rows[t] = <<Selected(rows, f, 0)>>

\* C6 witness: a card has been moved into a foundation row that was empty,
\* while a visible head of lower rank and of the suit of another, still empty
\* foundation row is refused there.
C6_Witness ==
  /\ SuccessfulMove
  /\ lastOp.to_row \in SuitRows
  /\ Len(rows[lastOp.to_row]) = 1
  /\ \E f \in RowIds, t \in SuitRows :
       /\ rows[t] = << >>
       /\ rows[f] # << >>
       /\ Selected(rows, f, 0).visible
       /\ Selected(rows, f, 0).suit = t
       /\ ~Succeeds(rows, f, t, 0)

\* C7: move into a non-empty foundation row.  On every reachable board, a
\* move of a visible head card (card_index 0, from another row) into a
\* non-empty foundation row f succeeds iff card.rank + 1 is the rank of f's
\* head and card.suit is f's index; on success the card is the new head of f.
C7_NonEmptyFoundation ==
  \A f \in RowIds, t \in SuitRows :
    (/\ f # t
     /\ rows[t] # << >>
     /\ rows[f] # << >>
     /\ Selected(rows, f, 0).visible) =>
      /\ Succeeds(rows, f, t, 0) <=>
           (/\ Selected(rows, f, 0).rank + 1 = Head(rows[t]).rank
            /\ Selected(rows, f, 0).suit = t)
      /\ Succeeds(rows, f, t, 0) =>
           Head(move_card(rows, f, t, 0).rows[t]) = Selected(rows, f, 0)

\* C7 witness: a card has been moved onto a non-empty foundation row, and a
\* visible head of that suit whose rank does not fit is refused there.
C7_Witness ==
  /\ SuccessfulMove
  /\ lastOp.to_row \in SuitRows
  /\ Len(rows[lastOp.to_row]) >= 2
  /\ \E f \in RowIds \ {lastOp.to_row} :
       /\ rows[f] # << >>
       /\ Selected(rows, f, 0).visible
       /\ Selected(rows, f, 0).suit = lastOp.to_row
       /\ ~Succeeds(rows, f, lastOp.to_row, 0)

\* C8: move into a tableau row.  On every reachable board, a move whose
\* selected card exists and is visible, whose source is not the destination
\* and whose destination is a tableau row (5-11) succeeds iff the destination
\* is empty or the selected card's rank is the destination head's rank + 1,
\* whatever the suits; otherwise it is rejected as a non-consecutive tableau
\* move (so rank 5 onto a head of rank 5 is).
C8_TableauMove ==
  \A f \in RowIds, t \in TableauRows, i \in IdxArgs :
    (/\ i <= Len(rows[f]) - 1
     /\ Selected(rows, f, i).visible
     /\ f # t) =>
      LET fits == \/ rows[t] = << >>
                  \/ Selected(rows, f, i).rank = Head(rows[t]).rank + 1
      IN /\ Succeeds(rows, f, t, i) <=> fits
         /\ ~fits => check_move_valid(rows, f, t, i) = "NonConsecutiveTableauMove"

\* C8 witness: cards have been moved into an empty tableau row, a card lies
\* on a tableau card of its own suit, and a selected card of rank 5 is
\* refused on a tableau head of rank 5.
C8_Witness ==
  /\ SuccessfulMove
  /\ lastOp.to_row \in TableauRows
  /\ Len(rows[lastOp.to_row]) = lastOp.card_idx + 1
  /\ \E r \in TableauRows :
       /\ Len(rows[r]) >= 2
       /\ rows[r][2].visible
       /\ rows[r][1].suit = rows[r][2].suit
  /\ \E f \in RowIds, t \in TableauRows, i \in IdxArgs :
       /\ i <= Len(rows[f]) - 1
       /\ f # t
       /\ rows[t] # << >>
       /\ Selected(rows, f, i).visible
       /\ Selected(rows, f, i).rank = 5
       /\ Head(rows[t]).rank = 5
       /\ ~Succeeds(rows, f, t, i)
\* Adjacent visible cards of the tableau rows descend by one rank from the
\* head on: rank[i] = rank[i+1] + 1.
TableauDescending(rs) ==
  \A r \in TableauRows : \A i \in 1..(Len(rs[r]) - 1) :
    (rs[r][i].visible /\ rs[r][i + 1].visible) => rs[r][i].rank = rs[r][i + 1].rank + 1

\* C9 as claimed: in every state reached from new_game() by draws and legal
\* moves from any source row 0-11, adjacent visible cards of every tableau
\* row satisfy rank[i] = rank[i+1] + 1.
C9_Original == TableauDescending(rows)

\* C9 amended: in every state reached from new_game() by draws and legal
\* moves whose source row is the stock or a tableau row (4-11), adjacent
\* visible cards of every tableau row satisfy rank[i] = rank[i+1] + 1.
C9_TableauDescending == ~suitRowSource => TableauDescending(rows)

\* C9 witness: a chain of two cards has been moved onto a tableau card, none
\* of the moves so far having a suit row as its source.
C9_Witness ==
  /\ SuccessfulMove
  /\ ~suitRowSource
  /\ lastOp.card_idx = 1
  /\ lastOp.to_row \in TableauRows
  /\ Len(rows[lastOp.to_row]) >= 3
  /\ rows[lastOp.to_row][3].visible

\* C10: foundation rows are filled King down to Ace by suit.  In every state
\* reached from new_game() by draws and moves, each foundation row s of length
\* k holds only visible cards of suit s and, read from tail to head, their
\* ranks are 13, 12, ..., 13-k+1.
C10_FoundationOrder ==
  \A s \in SuitRows : \A j \in 1..Len(rows[s]) :
    /\ rows[s][j].suit = s
    /\ rows[s][j].visible
    /\ rows[s][j].rank = RanksPerSuit - Len(rows[s]) + j

\* C10 witness: a foundation row holds three cards.
C10_Witness == \E s \in SuitRows : Len(rows[s]) >= 3
\* C11 as claimed: in every state reached from new_game() by draw, move and
\* cheat, check_game_over() is true iff all cards of the game are in the four
\* foundation rows: these hold 52 cards together and the stock row and the
\* seven tableau rows are empty.
C11_WinDetection ==
  check_game_over(rows) <=>
    /\ SumLen(rows, SuitRows) = DeckSize
    /\ \A r \in RowIds \ SuitRows : rows[r] = << >>

\* C12: cheat() always reaches the win state.  From every state reached by
\* draw, move and cheat, a call of cheat() returns normally and
\* check_game_over() is true right after it.
C12_CheatWins ==
  [][budget'.cheats < budget.cheats =>
       /\ lastOp' = Op("cheat", "Ok", NoArg, NoArg, NoArg)
       /\ check_game_over(rows')]_vars

\* C12 witness: cheat() has been called on a board whose foundation rows
\* already held cards, and the game is over.
C12_Witness ==
  /\ lastOp.op = "cheat"
  /\ \E s \in SuitRows : Len(rows[s]) > RanksPerSuit
  /\ check_game_over(rows)

\* C13 as claimed: after cheat() is called from any reachable state, also one
\* in which cards were already moved into a foundation row, each foundation
\* row s holds exactly the 13 cards of suit s, one of each rank 1..13, all
\* visible, the King placed first and the Ace last (at the head).
C13_CompleteSuits ==
  lastOp.op = "cheat" =>
    \A s \in SuitRows :
      rows[s] = [j \in 1..RanksPerSuit |-> Card(s, j, TRUE)]
\* C14 as claimed (Scenario C): move(from_row=4, card_index=0, to_row=4) fails
\* with CannotMoveIntoStock ('Cards cannot be moved into deck.') and leaves
\* the board unchanged.
C14_Original ==
  /\ move_card(rows, DeckRow, DeckRow, 0).result = "CannotMoveIntoStock"
  /\ move_card(rows, DeckRow, DeckRow, 0).rows = rows

\* C14 amended: move(from_row=4, card_index=0, to_row=4) fails and leaves the
\* board unchanged, but with SameRowMove ('Cannot move cards to the same
\* row.') while the stock row holds a card, and with CardIndexOutOfBounds once
\* it is empty.  CannotMoveIntoStock is the failure of a move into row 4 of a
\* face-up card selected in another row; it too leaves the board unchanged.
C14_MoveIntoStock ==
  /\ move_card(rows, DeckRow, DeckRow, 0).result =
       IF rows[DeckRow] = << >> THEN "CardIndexOutOfBounds" ELSE "SameRowMove"
  /\ move_card(rows, DeckRow, DeckRow, 0).rows = rows
  /\ \A from_row \in RowIds \ {DeckRow} : \A card_idx \in IdxArgs :
       (card_idx < Len(rows[from_row]) /\ rows[from_row][card_idx + 1].visible) =>
         /\ move_card(rows, from_row, DeckRow, card_idx).result = "CannotMoveIntoStock"
         /\ move_card(rows, from_row, DeckRow, card_idx).rows = rows

\* C14 witness: a move has been rejected on a board from whose stock row a
\* card was moved out earlier and whose stock row was rotated.
C14_Witness ==
  /\ RejectedMove
  /\ Len(rows[DeckRow]) < DeckSize - 28
  /\ budget.draws < MaxDraws
  /\ move_card(rows, DeckRow, DeckRow, 0).result = "SameRowMove"
\* The visible cards of a row are the cards of a prefix that starts at the head.
VisiblePrefix(row) ==
  \A j \in 1..Len(row) : row[j].visible => \A k \in 1..j : row[k].visible

\* C16: only the head of the stock is ever visible.  In every state reached
\* by draw and move no card of row 4 at index >= 1 is visible, so every
\* successful move out of the stock row moved exactly one card (card_index 0).
C16_StockHeadOnly ==
  /\ \A j \in 2..Len(rows[DeckRow]) : ~rows[DeckRow][j].visible
  /\ (SuccessfulMove /\ lastOp.from_row = DeckRow) => lastOp.card_idx = 0
  /\ \A to_row \in RowIds : \A card_idx \in IdxArgs \ {0} :
       ~Succeeds(rows, DeckRow, to_row, card_idx)

\* C16 witness: the stock row was rotated and then its head card was moved out,
\* and it still holds cards behind the new head.
C16_Witness ==
  /\ SuccessfulMove
  /\ lastOp.from_row = DeckRow
  /\ budget.draws < MaxDraws
  /\ Len(rows[DeckRow]) >= 2

\* C20: visibility invariant (card_index >= 0, DEBUG off).  In every state
\* reached by draw and move every non-empty row has a visible head card and
\* the visible cards of every row form a contiguous prefix from the head, so
\* every chain that passes the visibility check consists of visible cards only.
C20_VisiblePrefix ==
  /\ \A r \in RowIds : rows[r] # << >> => rows[r][1].visible
  /\ \A r \in RowIds : VisiblePrefix(rows[r])
  /\ \A from_row \in RowIds : \A to_row \in RowIds : \A card_idx \in IdxArgs :
       check_move_valid(rows, from_row, to_row, card_idx)
           \notin {"FromRowOutOfBounds", "ToRowOutOfBounds",
                   "CardIndexOutOfBounds", "CardNotVisible"}
         => \A j \in 1..(card_idx + 1) : rows[from_row][j].visible

\* C20 witness: a chain of two cards was moved off cards that were dealt face
\* down, the head of the source row was turned face up, and hidden cards
\* remain behind it.
C20_Witness ==
  /\ SuccessfulMove
  /\ lastOp.card_idx = 1
  /\ Len(rows[lastOp.from_row]) >= 2
  /\ rows[lastOp.from_row][1].visible
  /\ ~rows[lastOp.from_row][2].visible
\* The row lengths of a fresh game, rows 0..11.
DealLengths == <<0, 0, 0, 0, DeckSize - 28, 1, 2, 3, 4, 5, 6, 7>>

\* C17: deal shape.  Immediately after new_game(), for every shuffle, the row
\* lengths are [0,0,0,0,24,1,2,3,4,5,6,7], the head card of each of rows 4-11
\* is visible and every other card is hidden (DEBUG off).
C17_DealShape ==
  lastOp.op = "new_game" =>
    /\ \A r \in RowIds : Len(rows[r]) = DealLengths[r + 1]
    /\ \A r \in DeckRow..(NumRows - 1) : rows[r][1].visible
    /\ \A r \in RowIds : \A j \in 2..Len(rows[r]) : ~rows[r][j].visible

\* C17 witness: a fresh game dealt from a shuffle other than the base one,
\* with a King alone in row 5.
C17_Witness ==
  /\ lastOp.op = "new_game"
  /\ rows # NewGame(BaseShuffle)
  /\ Len(rows[5]) = 1
  /\ rows[5][1].rank = RanksPerSuit
  /\ Len(rows[DeckRow]) = DeckSize - 28
\* C15: stock rotation.  draw() on a stock of length k >= 2 keeps its
\* length, moves the old head to the tail, makes the new head visible and the
\* previous head hidden (DEBUG off), and changes no other row; k consecutive
\* draws, with no move in between, return the stock to its original card
\* order and visibility.
C15_StockRotation ==
  [][(lastOp'.op = "draw_card" /\ Len(rows[DeckRow]) >= 2) =>
       LET k == Len(rows[DeckRow])
           before == rows[DeckRow]
           after == rows'[DeckRow]
       IN /\ Len(after) = k
          /\ after[k] = [before[1] EXCEPT !.visible = FALSE]
          /\ after[1] = [before[2] EXCEPT !.visible = TRUE]
          /\ \A j \in 2..(k - 1) : after[j] = before[j + 1]
          /\ \A r \in RowIds \ {DeckRow} : rows'[r] = rows[r]
          /\ stockRun'.draws = k => after = stockRun'.start]_vars

\* C15 witness: after a card was moved out of the stock, the 23 cards left
\* were rotated 23 times and are back in the order the move left them in.
C15_Witness ==
  /\ lastOp.op = "draw_card"
  /\ Len(rows[DeckRow]) = DeckSize - 29
  /\ stockRun.draws = Len(rows[DeckRow])
  /\ rows[DeckRow] = stockRun.start
\* C18 as claimed: post-win lock in the session layer.  For every sequence of
\* user events (/start, /move, /cheat, the Draw Card button, the Play Again
\* button), once the user's game is in a state where check_game_over() is
\* true, no later draw or move event of that user changes the board of that
\* game; the game is only ever replaced by a new one.
C18_PostWinLock ==
  [][(check_game_over(rows) /\ lastOp'.op \in {"draw_card", "move_card"})
       => rows' = rows]_vars
\* C19 as claimed: negative card_index is never silently accepted.  For every
\* integer card_index that the /move command can pass, negative values
\* included, move_card either rejects the move with InvalidMoveError and
\* leaves the board unchanged, or relocates exactly the first card_index+1 >= 1
\* cards of from_row to the head of to_row; it never reports success while
\* moving no card and never reorders the cards that remain in from_row.
C19_NoSilentNegative ==
  [][lastOp'.op = "move_card" =>
       \/ /\ lastOp'.result = "InvalidMoveError"
          /\ rows' = rows
       \/ /\ lastOp'.result = "Ok"
          /\ lastOp'.card_idx + 1 >= 1
          /\ LET f == lastOp'.from_row
                 t == lastOp'.to_row
                 n == lastOp'.card_idx + 1
                 rest == SubSeq(rows[f], n + 1, Len(rows[f]))
             IN /\ rows'[t] = SubSeq(rows[f], 1, n) \o rows[t]
                /\ Len(rows'[f]) = Len(rest)
                /\ \A j \in 1..Len(rest) :
                     /\ rows'[f][j].suit = rest[j].suit
                     /\ rows'[f][j].rank = rest[j].rank
    ]_vars

====
